---------------------------- MODULE Spec2Model ----------------------------
(***************************************************************************)
(* A model of Translator.py: the translator classes, the chain builder     *)
(* and the charset pipeline builder.                                       *)
(*                                                                         *)
(* Python values are modelled by records whose single field names the      *)
(* type: [int |-> n], [str |-> <<code points>>], [list |-> <<values>>],    *)
(* [gen |-> <<outcomes>>].  A character is its code point; a str is the    *)
(* sequence of its code points.  The outcome of a call is either           *)
(* Ok(value) or Raise(exception type, message).                            *)
(***************************************************************************)
EXTENDS Integers, Sequences, FiniteSets, TLC

VARIABLES
    numeral,      \* the Base10ToBaseNTranslator under test: base, digits, padding
    embedded,     \* the EmbeddedMessageTranslator under test: start_seq, end_seq
    translators,  \* ChainTranslatorBuilder.translators
    added,        \* history: every translator handed to add/addAll, in call order
    composite,    \* the outcome of the latest ChainTranslatorBuilder.build()
    snapshot,     \* history: the value of translators when composite was built
    charsetBuilder, \* the CharsetTranslatorBuilder's fields
    pipeline,     \* the translator CharsetTranslatorBuilder.build() returned
    call          \* the latest call: op, arg, ret (and what the op adds)

vars == <<numeral, embedded, translators, added, composite, snapshot,
          charsetBuilder, pipeline, call>>

----------------------------------------------------------------------------
(* Bounds of the model *)

MaxNum == 8
MaxPadding == 3
MaxStrLen == 3

----------------------------------------------------------------------------
(* Python values and outcomes *)

PyInt(n) == [int |-> n]
PyStr(s) == [str |-> s]
PyList(l) == [list |-> l]
PyGen(outs) == [gen |-> outs]
None == [none |-> TRUE]

IsInt(v) == DOMAIN v = {"int"}
IsStr(v) == DOMAIN v = {"str"}
IsList(v) == DOMAIN v = {"list"}
IsGen(v) == DOMAIN v = {"gen"}

Ok(v) == [ok |-> TRUE, val |-> v]
Raise(type, message) == [ok |-> FALSE, exc |-> type, msg |-> message]

\* s[i] with Python's 0-based index
At(s, i) == s[i + 1]

\* s[::-1]
Reversed(s) == [i \in 1..Len(s) |-> s[Len(s) + 1 - i]]

\* s[a:b] for 0 <= a, b (an empty str when b <= a)
Slice(s, a, b) ==
    LET hi == IF b > Len(s) THEN Len(s) ELSE b
    IN  IF hi <= a THEN <<>> ELSE SubSeq(s, a + 1, hi)

\* All sequences over S of length at most n
SeqUpTo(S, n) == UNION {[1..k -> S] : k \in 0..n}

----------------------------------------------------------------------------
(* Base10ToBaseNTranslator *)

MinusSign == 45
ZeroChar == 48

\* digits.index(digit): the first 0-based position, or -1 when str.index raises
Index(digits, digit) ==
    IF \E i \in 1..Len(digits) : digits[i] = digit
    THEN (CHOOSE i \in 1..Len(digits) :
            digits[i] = digit /\ \A j \in 1..(i - 1) : digits[j] # digit) - 1
    ELSE -1

\* while decimal: digits.append(self.digits[decimal % self.base]); decimal //= self.base
RECURSIVE DigitLoop(_, _, _)
DigitLoop(self, decimal, digits) ==
    IF decimal = 0 THEN digits
    ELSE DigitLoop(self, decimal \div self.base,
                   Append(digits, At(self.digits, decimal % self.base)))

\* while len(digits) < self.padding: digits.append(self.digits[0])
RECURSIVE PadLoop(_, _)
PadLoop(self, digits) ==
    IF Len(digits) < self.padding
    THEN PadLoop(self, Append(digits, At(self.digits, 0)))
    ELSE digits

Base10Encode(self, decimal) ==
    IF ~IsInt(decimal) THEN Raise("TypeError", "decimal musst be int")
    ELSE IF decimal.int = 0 THEN Ok(PyStr(<<ZeroChar>>))
    ELSE LET neg == decimal.int < 0
             magnitude == IF neg THEN decimal.int * (-1) ELSE decimal.int
             lsf == DigitLoop(self, magnitude, <<>>)
             signed == IF neg THEN Append(lsf, MinusSign) ELSE lsf
         IN  Ok(PyStr(Reversed(PadLoop(self, signed))))

\* for (i, digit) in enumerate(num[::-1]): decimal += index(digit) * base ** i
RECURSIVE PlaceLoop(_, _, _, _)
PlaceLoop(self, rev, i, decimal) ==
    IF i >= Len(rev) THEN Ok(PyInt(decimal))
    ELSE LET idx == Index(self.digits, At(rev, i))
         IN  IF idx < 0 THEN Raise("ValueError", "substring not found")
             ELSE PlaceLoop(self, rev, i + 1, decimal + idx * self.base ^ i)

Base10Decode(self, num) ==
    IF ~IsStr(num) THEN Raise("TypeError", "num musst be str")
    ELSE IF Len(num.str) = 0 THEN Raise("IndexError", "string index out of range")
    ELSE LET neg == At(num.str, 0) = MinusSign
             body == IF neg THEN Slice(num.str, 1, Len(num.str)) ELSE num.str
             sum == PlaceLoop(self, Reversed(body), 0, 0)
         IN  IF ~sum.ok THEN sum
             ELSE IF neg THEN Ok(PyInt(sum.val.int * (-1))) ELSE sum

----------------------------------------------------------------------------
(* UnicodeCharacterTranslator *)

UnicodeEncode(char) ==
    IF ~IsStr(char) THEN Raise("TypeError", "object has no len()")
    ELSE IF Len(char.str) # 1 THEN Raise("ValueError", "Expected char not str!")
    ELSE Ok(PyInt(char.str[1]))

UnicodeDecode(number) ==
    IF ~IsInt(number) THEN Raise("TypeError", "not supported between str and int")
    ELSE IF ~(0 <= number.int /\ number.int <= 255)
         THEN Raise("ValueError", "number must be between 0 and 255")
    ELSE Ok(PyStr(<<number.int>>))

----------------------------------------------------------------------------
(* EmbeddedMessageTranslator.  The markers of the model hold no character  *)
(* that is special in a regular expression, so the compiled pattern        *)
(* start_seq + ".*" + end_seq matches start_seq and end_seq literally.     *)

\* text.startswith(s, i)
MatchesAt(text, s, i) ==
    /\ i + Len(s) <= Len(text)
    /\ \A k \in 1..Len(s) : text[i + k] = s[k]

StartsWith(text, s) == MatchesAt(text, s, 0)
EndsWith(text, s) == Len(s) <= Len(text) /\ MatchesAt(text, s, Len(text) - Len(s))

\* "." matches any character except a newline (the pattern has no re.DOTALL)
DotStar(text, a, b) == \A k \in (a + 1)..b : text[k] # 10

\* The positions j at which end_seq can follow start_seq at i and ".*"
MatchEnds(self, text, i) ==
    {j \in (i + Len(self.start_seq))..Len(text) :
        /\ MatchesAt(text, self.start_seq, i)
        /\ DotStar(text, i + Len(self.start_seq), j)
        /\ MatchesAt(text, self.end_seq, j)}

Max(S) == CHOOSE x \in S : \A y \in S : y <= x
Min(S) == CHOOSE x \in S : \A y \in S : x <= y

\* The first match of pattern.finditer(text): the leftmost start, and from it
\* the longest ".*" (greedy); found is FALSE when the pattern matches nowhere
FirstMatch(self, text) ==
    LET starts == {i \in 0..Len(text) : MatchEnds(self, text, i) # {}}
    IN  IF starts = {} THEN [found |-> FALSE]
        ELSE LET i == Min(starts)
                 j == Max(MatchEnds(self, text, i))
             IN  [found |-> TRUE, group |-> Slice(text, i, j + Len(self.end_seq))]

EmbeddedEncode(self, rawMsg) ==
    Ok(PyStr(self.start_seq \o rawMsg.str \o self.end_seq))

EmbeddedDecodeCandidate_NegativeSlice(self, embeddedMsg) ==
    IF ~StartsWith(embeddedMsg.str, self.start_seq)
    THEN Raise("ValueError", "Message doesn't start with the expected start sequence")
    ELSE IF ~EndsWith(embeddedMsg.str, self.end_seq)
    THEN Raise("ValueError", "Message doesn't end with the expected end sequence")
    ELSE \* embeddedMsg[left_offset:-right_offset]: -0 is 0, the start of the str
         LET right_offset == Len(self.end_seq)
         IN  Ok(PyStr(Slice(embeddedMsg.str, Len(self.start_seq),
                            IF right_offset = 0 THEN 0
                            ELSE Len(embeddedMsg.str) - right_offset)))

EmbeddedDecodeCandidate(self, embeddedMsg) ==
    IF ~StartsWith(embeddedMsg.str, self.start_seq)
    THEN Raise("ValueError", "Message doesn't start with the expected start sequence")
    ELSE IF ~EndsWith(embeddedMsg.str, self.end_seq)
    THEN Raise("ValueError", "Message doesn't end with the expected end sequence")
    ELSE LET left_offset == Len(self.start_seq)
             right_offset == Len(self.end_seq)
             msgLen == Len(embeddedMsg.str)
         IN  Ok(PyStr(Slice(embeddedMsg.str, left_offset, msgLen - right_offset)))

EmbeddedDecode(self, text) ==
    IF ~IsStr(text) THEN Raise("TypeError", "expected string or bytes-like object")
    ELSE LET match == FirstMatch(self, text.str)
         IN  IF match.found
             THEN EmbeddedDecodeCandidate(self, PyStr(match.group))
             ELSE Raise("ValueError", "No message found!")

EmbeddedMessageTranslator(start_seq, end_seq) ==
    [kind |-> "EmbeddedMessage", start_seq |-> start_seq, end_seq |-> end_seq]

----------------------------------------------------------------------------
(* StringReplacementTranslator.  A dict is the sequence of its <<key,       *)
(* value>> items in insertion order; setting a key that is present         *)
(* replaces its value in place.                                            *)

HasKey(dict, key) == \E i \in 1..Len(dict) : dict[i][1] = key

\* dict[key]
DictGet(dict, key) ==
    IF HasKey(dict, key)
    THEN Ok(dict[CHOOSE i \in 1..Len(dict) : dict[i][1] = key][2])
    ELSE Raise("KeyError", "key")

\* The dict that setting items[1], items[2], ... in turn leaves: each key at
\* the place of its first item, with the value of its last item
DictOf(items) ==
    LET first == {i \in 1..Len(items) :
                    \A j \in 1..(i - 1) : items[j][1] # items[i][1]}
        last(i) == CHOOSE j \in 1..Len(items) :
                    /\ items[j][1] = items[i][1]
                    /\ \A k \in (j + 1)..Len(items) : items[k][1] # items[i][1]
        nth(k) == CHOOSE i \in first : Cardinality({j \in first : j <= i}) = k
    IN  [k \in 1..Cardinality(first) |->
            <<items[nth(k)][1], items[last(nth(k))][2]>>]

\* {v: k for (k, v) in charset.items()}
Flip(charset) == DictOf([i \in 1..Len(charset) |-> <<charset[i][2], charset[i][1]>>])

StringReplacementTranslator(charset) ==
    [kind |-> "StringReplacement", charset |-> charset,
     charset_inv |-> Flip(charset)]

ReplacementEncode(self, obj) == DictGet(self.charset, obj)
ReplacementDecode(self, obj) == DictGet(self.charset_inv, obj)

----------------------------------------------------------------------------
(* Iteration.  Iterating a str gives its characters, a list its elements;   *)
(* a generator is the sequence of the outcomes its next() calls give, the  *)
(* last of which may be a raise (the generator is finished after it).      *)

IsIterable(v) == IsStr(v) \/ IsList(v) \/ IsGen(v)

Outcomes(v) ==
    IF IsStr(v) THEN [i \in 1..Len(v.str) |-> Ok(PyStr(<<v.str[i]>>))]
    ELSE IF IsList(v) THEN [i \in 1..Len(v.list) |-> Ok(v.list[i])]
    ELSE v.gen

\* The outcomes up to and including the first raise
UpToFirstRaise(outs) ==
    LET bad == {i \in 1..Len(outs) : ~outs[i].ok}
    IN  IF bad = {} THEN outs ELSE SubSeq(outs, 1, Min(bad))

Raises(outs) == \E i \in 1..Len(outs) : ~outs[i].ok
FirstRaise(outs) == outs[Min({i \in 1..Len(outs) : ~outs[i].ok})]

----------------------------------------------------------------------------
(* FunctionTranslator: the functions CharsetTranslatorBuilder.build wraps  *)

StrFunction == [name |-> "str"]
ListFunction == [name |-> "list"]
JoinFunction(separator) == [name |-> "join", sep |-> separator]
SplitFunction(separator) == [name |-> "split", sep |-> separator]

\* sep.join(items) of a sequence of str values
RECURSIVE Joined(_, _)
Joined(sep, items) ==
    IF Len(items) = 0 THEN <<>>
    ELSE IF Len(items) = 1 THEN items[1].str
    ELSE items[1].str \o sep \o Joined(sep, Tail(items))

\* separator.join(iterable): consumes the iterable; what it raises, join raises
Join(sep, iterable) ==
    IF ~IsIterable(iterable) THEN Raise("TypeError", "can only join an iterable")
    ELSE LET outs == Outcomes(iterable)
         IN  IF Raises(outs) THEN FirstRaise(outs)
             ELSE IF \E i \in 1..Len(outs) : ~IsStr(outs[i].val)
             THEN Raise("TypeError", "sequence item: expected str instance")
             ELSE Ok(PyStr(Joined(sep, [i \in 1..Len(outs) |-> outs[i].val])))

\* text.split(sep): the pieces between the occurrences of sep, left to right
RECURSIVE Pieces(_, _, _, _)
Pieces(text, sep, from, i) ==
    IF i + Len(sep) > Len(text)
    THEN <<PyStr(Slice(text, from, Len(text)))>>
    ELSE IF MatchesAt(text, sep, i)
    THEN <<PyStr(Slice(text, from, i))>>
            \o Pieces(text, sep, i + Len(sep), i + Len(sep))
    ELSE Pieces(text, sep, from, i + 1)

Split(sep, text) ==
    IF ~IsStr(text) THEN Raise("AttributeError", "object has no attribute 'split'")
    ELSE IF Len(sep) = 0 THEN Raise("ValueError", "empty separator")
    ELSE Ok(PyList(Pieces(text.str, sep, 0, 0)))

\* list(iterable)
ToList(iterable) ==
    IF ~IsIterable(iterable) THEN Raise("TypeError", "object is not iterable")
    ELSE LET outs == Outcomes(iterable)
         IN  IF Raises(outs) THEN FirstRaise(outs)
             ELSE Ok(PyList([i \in 1..Len(outs) |-> outs[i].val]))

\* str(obj), for the str values the pipeline hands it
ToStr(obj) == Ok(PyStr(obj.str))

FunctionCall(f, obj) ==
    CASE f.name = "str" -> ToStr(obj)
      [] f.name = "list" -> ToList(obj)
      [] f.name = "join" -> Join(f.sep, obj)
      [] f.name = "split" -> Split(f.sep, obj)

----------------------------------------------------------------------------
(* The translator objects and the dispatch of encode and decode *)

UnicodeCharacterTranslator == [kind |-> "UnicodeCharacter"]
Base10ToBaseNTranslator(base, digits, padding) ==
    [kind |-> "Base10ToBaseN", base |-> base, digits |-> digits,
     padding |-> padding]
IterableTranslator(itemTranslator) ==
    [kind |-> "Iterable", translator |-> itemTranslator]
FunctionTranslator(f, f_inv) == [kind |-> "Function", f |-> f, f_inv |-> f_inv]
ChainedTranslator(t1, t2) == [kind |-> "Chained", t1 |-> t1, t2 |-> t2]

RECURSIVE Encode(_, _)
RECURSIVE Decode(_, _)

\* (self.translator.encode(item) for item in l): iter(l) is taken at once,
\* each item is translated when the generator is asked for it
IterableEncode(self, l) ==
    IF ~IsIterable(l) THEN Raise("TypeError", "object is not iterable")
    ELSE LET src == Outcomes(l)
         IN  Ok(PyGen(UpToFirstRaise(
                [i \in 1..Len(src) |->
                    IF src[i].ok THEN Encode(self.translator, src[i].val)
                    ELSE src[i]])))

IterableDecode(self, l) ==
    IF ~IsIterable(l) THEN Raise("TypeError", "object is not iterable")
    ELSE LET src == Outcomes(l)
         IN  Ok(PyGen(UpToFirstRaise(
                [i \in 1..Len(src) |->
                    IF src[i].ok THEN Decode(self.translator, src[i].val)
                    ELSE src[i]])))

ChainedEncode(self, obj) ==
    LET tmp == Encode(self.t1, obj)
    IN  IF tmp.ok THEN Encode(self.t2, tmp.val) ELSE tmp

ChainedDecode(self, obj) ==
    LET tmp == Decode(self.t2, obj)
    IN  IF tmp.ok THEN Decode(self.t1, tmp.val) ELSE tmp

Encode(t, obj) ==
    CASE t.kind = "UnicodeCharacter" -> UnicodeEncode(obj)
      [] t.kind = "Base10ToBaseN" -> Base10Encode(t, obj)
      [] t.kind = "Iterable" -> IterableEncode(t, obj)
      [] t.kind = "StringReplacement" -> ReplacementEncode(t, obj)
      [] t.kind = "Function" -> FunctionCall(t.f, obj)
      [] t.kind = "Chained" -> ChainedEncode(t, obj)
      [] t.kind = "EmbeddedMessage" -> EmbeddedEncode(t, obj)

Decode(t, obj) ==
    CASE t.kind = "UnicodeCharacter" -> UnicodeDecode(obj)
      [] t.kind = "Base10ToBaseN" -> Base10Decode(t, obj)
      [] t.kind = "Iterable" -> IterableDecode(t, obj)
      [] t.kind = "StringReplacement" -> ReplacementDecode(t, obj)
      [] t.kind = "Function" -> FunctionCall(t.f_inv, obj)
      [] t.kind = "Chained" -> ChainedDecode(t, obj)
      [] t.kind = "EmbeddedMessage" -> EmbeddedDecode(t, obj)

----------------------------------------------------------------------------
(* ChainTranslatorBuilder.build *)

\* for t in self.translators[2:]: T = ChainedTranslator(T, t)
RECURSIVE FoldChain(_, _, _)
FoldChain(T, ts, i) ==
    IF i > Len(ts) THEN T
    ELSE FoldChain(ChainedTranslator(T, ts[i]), ts, i + 1)

\* A fold that chains each further translator in front of the composite
RECURSIVE FoldChainInFront(_, _, _)
FoldChainInFront(T, ts, i) ==
    IF i > Len(ts) THEN T
    ELSE FoldChainInFront(ChainedTranslator(ts[i], T), ts, i + 1)

ChainBuild_InFront(ts) ==
    IF Len(ts) = 0
    THEN Raise("RuntimeError", "Can't build TranslatorChain without translators!")
    ELSE IF Len(ts) = 1 THEN Ok(ts[1])
    ELSE Ok(FoldChainInFront(ChainedTranslator(ts[1], ts[2]), ts, 3))

ChainBuild(ts) ==
    IF Len(ts) = 0
    THEN Raise("RuntimeError", "Can't build TranslatorChain without translators!")
    ELSE IF Len(ts) = 1 THEN Ok(ts[1])
    ELSE Ok(FoldChain(ChainedTranslator(ts[1], ts[2]), ts, 3))

----------------------------------------------------------------------------
(* CharsetTranslatorBuilder.build *)

\* string.digits + string.ascii_letters: "0".."9", "a".."z", "A".."Z"
DigitsAndLetters ==
    [i \in 1..62 |-> IF i <= 10 THEN 47 + i
                     ELSE IF i <= 36 THEN 86 + i
                     ELSE 28 + i]

\* for i in range(len(digits), len(charset)): digits += chr(i)
RECURSIVE ExtendDigits(_, _, _)
ExtendDigits(digits, i, n) ==
    IF i >= n THEN digits ELSE ExtendDigits(Append(digits, i), i + 1, n)

CanonicalDigits(charset) ==
    ExtendDigits(DigitsAndLetters, Len(DigitsAndLetters), Len(charset))

\* {digits[i]: charset[i] for i in range(0, len(charset))}
Replacement(digits, charset) ==
    DictOf([i \in 1..Len(charset) |->
                <<PyStr(<<digits[i]>>), PyStr(<<charset[i]>>)>>])

Pipe(charset, separator, start_seq, end_seq) ==
    LET digits == CanonicalDigits(charset)
        replacement == Replacement(digits, charset)
    IN  << IterableTranslator(UnicodeCharacterTranslator),
           IterableTranslator(Base10ToBaseNTranslator(Len(charset), digits, 0)),
           IterableTranslator(FunctionTranslator(StrFunction, JoinFunction(<<>>))),
           IterableTranslator(IterableTranslator(
               StringReplacementTranslator(replacement))),
           IterableTranslator(FunctionTranslator(JoinFunction(<<>>), ListFunction)),
           FunctionTranslator(JoinFunction(separator), SplitFunction(separator)),
           EmbeddedMessageTranslator(start_seq, end_seq) >>

\* builder.addAll(pipe).build() on a fresh ChainTranslatorBuilder
CharsetBuild(self) ==
    IF \E f \in DOMAIN self : self[f] = None
    THEN Raise("AttributeError", "object has no attribute")
    ELSE ChainBuild(<<>> \o Pipe(self.charset.str, self.separator.str,
                                 self.start_seq.str, self.end_seq.str))

----------------------------------------------------------------------------
(* Calls.  An operation is called when no call is in progress; Return ends *)
(* the call, and what it returned is dropped.                              *)

IdleCall == [op |-> "none"]

OnlyCall ==
    UNCHANGED <<numeral, embedded, translators, added, composite, snapshot,
                charsetBuilder, pipeline>>

Return ==
    /\ call # IdleCall
    /\ call' = IdleCall
    /\ OnlyCall

----------------------------------------------------------------------------
(* The Base10ToBaseNTranslator under test *)

\* The configurations the constructor accepts: base >= 2 and len(digits) >= base
DigitAlphabets == {<<48, 49>>, <<97, 98>>, <<48, 49, 50>>}
NumeralConfigs ==
    {c \in [kind : {"Base10ToBaseN"}, base : 2..3, digits : DigitAlphabets,
             padding : 0..MaxPadding] :
        Len(c.digits) >= c.base}

\* Characters of the strings handed to decode: "-", "0", "1", "a", "x"
NumeralChars == {MinusSign, ZeroChar, 49, 97, 120}

InitBase ==
    /\ numeral \in NumeralConfigs
    /\ call = IdleCall
    /\ embedded = None /\ translators = <<>> /\ added = <<>>
    /\ composite = None /\ snapshot = <<>>
    /\ charsetBuilder = None /\ pipeline = None

EncodeNumber ==
    \E n \in (-MaxNum)..MaxNum :
        /\ call = IdleCall
        /\ call' = [op |-> "encode", arg |-> PyInt(n),
                    ret |-> Base10Encode(numeral, PyInt(n))]
        /\ OnlyCall

DecodeNumeral ==
    \E s \in SeqUpTo(NumeralChars, MaxStrLen) :
        /\ call = IdleCall
        /\ call' = [op |-> "decode", arg |-> PyStr(s),
                    ret |-> Base10Decode(numeral, PyStr(s))]
        /\ OnlyCall

\* decode applied to what encode returned
DecodeEncodedNumber ==
    /\ call.op = "encode"
    /\ call.ret.ok
    /\ call' = [op |-> "roundtrip", arg |-> call.arg, mid |-> call.ret.val,
                ret |-> Base10Decode(numeral, call.ret.val)]
    /\ OnlyCall

NextBase == EncodeNumber \/ DecodeNumeral \/ DecodeEncodedNumber \/ Return

SpecBase == InitBase /\ [][NextBase]_vars

----------------------------------------------------------------------------
(* The EmbeddedMessageTranslator under test *)

MaxTextLen == 4
MaxPayloadLen == 2

\* "", "<", ">", "<<", ">>"
Markers == {<<>>, <<60>>, <<62>>, <<60, 60>>, <<62, 62>>}

\* "<", ">", "a" and the newline
FrameChars == {60, 62, 97, 10}

InitFrame ==
    /\ embedded \in {EmbeddedMessageTranslator(s, e) : s \in Markers, e \in Markers}
    /\ call = IdleCall
    /\ numeral = None /\ translators = <<>> /\ added = <<>>
    /\ composite = None /\ snapshot = <<>>
    /\ charsetBuilder = None /\ pipeline = None

FrameEncode ==
    \E rawMsg \in SeqUpTo(FrameChars, MaxPayloadLen) :
        /\ call = IdleCall
        /\ call' = [op |-> "encode", arg |-> PyStr(rawMsg),
                    ret |-> EmbeddedEncode(embedded, PyStr(rawMsg))]
        /\ OnlyCall

FrameDecode ==
    \E text \in SeqUpTo(FrameChars, MaxTextLen) :
        /\ call = IdleCall
        /\ call' = [op |-> "decode", arg |-> PyStr(text),
                    ret |-> EmbeddedDecode(embedded, PyStr(text))]
        /\ OnlyCall

FrameDecodeCandidate ==
    \E embeddedMsg \in SeqUpTo(FrameChars, MaxTextLen) :
        /\ call = IdleCall
        /\ call' = [op |-> "decodeCandidate", arg |-> PyStr(embeddedMsg),
                    ret |-> EmbeddedDecodeCandidate(embedded, PyStr(embeddedMsg))]
        /\ OnlyCall

\* decodeCandidate applied to what encode returned
DecodeCandidateOfEncoded ==
    /\ call.op = "encode"
    /\ call.ret.ok
    /\ call' = [op |-> "unframe", arg |-> call.arg, mid |-> call.ret.val,
                ret |-> EmbeddedDecodeCandidate(embedded, call.ret.val)]
    /\ OnlyCall

NextFrame ==
    FrameEncode \/ FrameDecode \/ FrameDecodeCandidate
        \/ DecodeCandidateOfEncoded \/ Return

SpecFrame == InitFrame /\ [][NextFrame]_vars

----------------------------------------------------------------------------
(* The ChainTranslatorBuilder under test.  Its stages are                  *)
(* EmbeddedMessageTranslators with different markers: "<" ">", "#" "#" and *)
(* "a" "z".                                                                *)

MaxStages == 3
MaxBulk == 2

StagePool ==
    { EmbeddedMessageTranslator(<<60>>, <<62>>),
      EmbeddedMessageTranslator(<<35>>, <<35>>),
      EmbeddedMessageTranslator(<<97>>, <<122>>) }

\* What the built translator is handed: "", "a", "<" to encode, and any short
\* text over "<", ">", "#" to decode
ChainMessages == {<<>>, <<97>>, <<60>>}
ChainCarriers == SeqUpTo({60, 62, 35}, MaxStrLen)

InitChain ==
    /\ translators = <<>>
    /\ added = <<>>
    /\ composite = None
    /\ snapshot = <<>>
    /\ call = IdleCall
    /\ numeral = None /\ embedded = None
    /\ charsetBuilder = None /\ pipeline = None

\* self.translators.append(t)
Add ==
    \E t \in StagePool :
        /\ call = IdleCall
        /\ Len(translators) < MaxStages
        /\ translators' = Append(translators, t)
        /\ added' = Append(added, t)
        /\ call' = [op |-> "add", arg |-> <<t>>]
        /\ UNCHANGED <<numeral, embedded, composite, snapshot, charsetBuilder,
                       pipeline>>

\* self.translators.extend(ts)
AddAll ==
    \E ts \in SeqUpTo(StagePool, MaxBulk) :
        /\ call = IdleCall
        /\ Len(translators) + Len(ts) <= MaxStages
        /\ translators' = translators \o ts
        /\ added' = added \o ts
        /\ call' = [op |-> "addAll", arg |-> ts]
        /\ UNCHANGED <<numeral, embedded, composite, snapshot, charsetBuilder,
                       pipeline>>

\* A build() that takes the translators off the list as it chains them
Build_Draining ==
    /\ call = IdleCall
    /\ composite' = ChainBuild(translators)
    /\ snapshot' = translators
    /\ translators' = <<>>
    /\ call' = [op |-> "build", arg |-> translators, ret |-> composite']
    /\ UNCHANGED <<numeral, embedded, added, charsetBuilder, pipeline>>

\* build() reads self.translators and leaves it as it is
Build ==
    /\ call = IdleCall
    /\ composite' = ChainBuild(translators)
    /\ snapshot' = translators
    /\ call' = [op |-> "build", arg |-> translators, ret |-> composite']
    /\ UNCHANGED <<numeral, embedded, translators, added, charsetBuilder,
                   pipeline>>

\* encode on the translator the latest successful build returned
CompositeEncode ==
    \E x \in ChainMessages :
        /\ call = IdleCall
        /\ composite # None
        /\ composite.ok
        /\ call' = [op |-> "encode", arg |-> PyStr(x),
                    ret |-> Encode(composite.val, PyStr(x))]
        /\ OnlyCall

CompositeDecode ==
    \E y \in ChainCarriers :
        /\ call = IdleCall
        /\ composite # None
        /\ composite.ok
        /\ call' = [op |-> "decode", arg |-> PyStr(y),
                    ret |-> Decode(composite.val, PyStr(y))]
        /\ OnlyCall

\* decode applied to what encode returned
CompositeDecodeEncoded ==
    /\ call.op = "encode"
    /\ call.ret.ok
    /\ call' = [op |-> "roundtrip", arg |-> call.arg, mid |-> call.ret.val,
                ret |-> Decode(composite.val, call.ret.val)]
    /\ OnlyCall

NextChain ==
    Add \/ AddAll \/ Build \/ CompositeEncode \/ CompositeDecode
        \/ CompositeDecodeEncoded \/ Return

SpecChain == InitChain /\ [][NextChain]_vars

----------------------------------------------------------------------------
(* The CharsetTranslatorBuilder under test *)

MaxMessageLen == 2
MaxCarrierLen == 3
BigCharset == 66

\* Target alphabets: "AB", "ABC", and BigCharset symbols from code point 1001 on
Charsets == {<<65, 66>>, <<65, 66, 67>>, [i \in 1..BigCharset |-> 1000 + i]}

\* "-"
Separators == {<<MinusSign>>}

\* "<" and ">", "<<" and ">>"
Sequences == {<<(<<60>>), (<<62>>)>>, <<(<<60, 60>>), (<<62, 62>>)>>}

\* Characters of the messages: "A", "a" and code point 256
MessageChars == {65, 97, 256}

\* Characters of the carrier texts: "B", "X", "-", "<", ">"
CarrierChars == {66, 88, MinusSign, 60, 62}

\* A CharsetTranslatorBuilder has no attribute until its setters are called
InitCharset ==
    /\ charsetBuilder = [charset |-> None, separator |-> None,
                         start_seq |-> None, end_seq |-> None]
    /\ pipeline = None
    /\ call = IdleCall
    /\ numeral = None /\ embedded = None
    /\ translators = <<>> /\ added = <<>> /\ composite = None /\ snapshot = <<>>

SetCharset ==
    \E charset \in Charsets :
        /\ call = IdleCall
        /\ charsetBuilder' = [charsetBuilder EXCEPT !.charset = PyStr(charset)]
        /\ call' = [op |-> "setCharset", arg |-> PyStr(charset)]
        /\ UNCHANGED <<numeral, embedded, translators, added, composite,
                       snapshot, pipeline>>

SetSeparator ==
    \E separator \in Separators :
        /\ call = IdleCall
        /\ charsetBuilder' = [charsetBuilder EXCEPT !.separator = PyStr(separator)]
        /\ call' = [op |-> "setSeparator", arg |-> PyStr(separator)]
        /\ UNCHANGED <<numeral, embedded, translators, added, composite,
                       snapshot, pipeline>>

SetSequences ==
    \E seqs \in Sequences :
        /\ call = IdleCall
        /\ charsetBuilder' = [charsetBuilder EXCEPT !.start_seq = PyStr(seqs[1]),
                                                    !.end_seq = PyStr(seqs[2])]
        /\ call' = [op |-> "setSequences", arg |-> PyStr(seqs[1] \o seqs[2])]
        /\ UNCHANGED <<numeral, embedded, translators, added, composite,
                       snapshot, pipeline>>

BuildPipeline ==
    /\ call = IdleCall
    /\ pipeline' = CharsetBuild(charsetBuilder)
    /\ call' = [op |-> "build", arg |-> None]
    /\ UNCHANGED <<numeral, embedded, translators, added, composite, snapshot,
                   charsetBuilder>>

PipelineEncode ==
    \E message \in SeqUpTo(MessageChars, MaxMessageLen) :
        /\ call = IdleCall
        /\ pipeline # None
        /\ pipeline.ok
        /\ call' = [op |-> "encode", arg |-> PyStr(message),
                    ret |-> Encode(pipeline.val, PyStr(message))]
        /\ OnlyCall

PipelineDecode ==
    \E carrierText \in SeqUpTo(CarrierChars, MaxCarrierLen) :
        /\ call = IdleCall
        /\ pipeline # None
        /\ pipeline.ok
        /\ call' = [op |-> "decode", arg |-> PyStr(carrierText),
                    ret |-> Decode(pipeline.val, PyStr(carrierText))]
        /\ OnlyCall

\* decode applied to what encode returned
PipelineDecodeEncoded ==
    /\ call.op = "encode"
    /\ call.ret.ok
    /\ call' = [op |-> "roundtrip", arg |-> call.arg, mid |-> call.ret.val,
                ret |-> Decode(pipeline.val, call.ret.val)]
    /\ OnlyCall

\* next() on the generator decode returned: the genexpr of
\* IterableTranslator.decode runs one item further
NextItem ==
    /\ call.op \in {"decode", "roundtrip", "next"}
    /\ call.ret.ok
    /\ LET gen == IF call.op = "next" THEN call.gen ELSE call.ret.val
           pos == IF call.op = "next" THEN call.pos + 1 ELSE 1
       IN  /\ IsGen(gen)
           /\ call' = [op |-> "next", gen |-> gen, pos |-> pos,
                       ret |-> IF pos <= Len(gen.gen) THEN gen.gen[pos]
                               ELSE Raise("StopIteration", "")]
    /\ OnlyCall

NextCharset ==
    SetCharset \/ SetSeparator \/ SetSequences \/ BuildPipeline
        \/ PipelineEncode \/ PipelineDecode \/ PipelineDecodeEncoded
        \/ NextItem \/ Return

SpecCharset == InitCharset /\ [][NextCharset]_vars

----------------------------------------------------------------------------
(* Properties of Base10ToBaseNTranslator, under SpecBase *)

\* C2: decode(encode(n)) == n for every integer n; encode(0) is the zero-digit
\* digits[0]; for negative n the encoded string begins with a minus sign.
C2_BaseConversionRoundTrip ==
    /\ (call.op = "roundtrip") => (call.ret = Ok(call.arg))
    /\ (call.op = "encode" /\ call.arg.int = 0) =>
            (call.ret = Ok(PyStr(<<At(numeral.digits, 0)>>)))
    /\ (call.op = "encode" /\ call.arg.int < 0) =>
            (call.ret.ok /\ Len(call.ret.val.str) > 0
                /\ At(call.ret.val.str, 0) = MinusSign)

\* The digits of a positive magnitude, most significant first, without padding
RECURSIVE Significant(_, _)
Significant(t, magnitude) ==
    IF magnitude = 0 THEN <<>>
    ELSE Append(Significant(t, magnitude \div t.base),
                At(t.digits, magnitude % t.base))

\* C3: encode(n) has length >= padding (one more when n < 0) and reads: the
\* minus sign if n < 0, then only zero-digits, then the significant digits.
C3_PaddingLaw ==
    (call.op = "encode") =>
        LET n == call.arg.int
            sign == IF n < 0 THEN <<MinusSign>> ELSE <<>>
            zero == At(numeral.digits, 0)
            sig == IF n = 0 THEN <<zero>>
                   ELSE Significant(numeral, IF n < 0 THEN 0 - n ELSE n)
        IN  /\ call.ret.ok
            /\ Len(call.ret.val.str) >= numeral.padding + Len(sign)
            /\ \E k \in 0..Len(call.ret.val.str) :
                    call.ret.val.str = sign \o [i \in 1..k |-> zero] \o sig

\* C9: decode(s) returns an integer or fails with InvalidDigit (the ValueError
\* of digits.index), and fails exactly when s without one leading minus sign
\* holds a character that is no digit of the alphabet.
C9_DecodeIntegerOrInvalidDigit ==
    (call.op = "decode") =>
        LET s == call.arg.str
            body == IF Len(s) > 0 /\ s[1] = MinusSign THEN Tail(s) ELSE s
            foreign == \E i \in 1..Len(body) :
                          \A j \in 1..Len(numeral.digits) :
                              numeral.digits[j] # body[i]
        IN  /\ \/ call.ret.ok /\ IsInt(call.ret.val)
               \/ call.ret = Raise("ValueError", "substring not found")
            /\ (~call.ret.ok) <=> foreign

----------------------------------------------------------------------------
(* Properties of EmbeddedMessageTranslator, under SpecFrame *)

\* C6: when the carrier holds the start marker and, after it, the end marker,
\* decode returns the text between the first start marker and the last end
\* marker after it; otherwise it fails with NotFound ("No message found!").
C6_GreedySpan ==
    (call.op = "decode" /\ embedded.start_seq # <<>> /\ embedded.end_seq # <<>>) =>
        LET text == call.arg.str
            start == embedded.start_seq
            end == embedded.end_seq
            starts == {i \in 0..Len(text) : MatchesAt(text, start, i)}
            endsAfter(i) == {j \in (i + Len(start))..Len(text) :
                                MatchesAt(text, end, j)}
        IN  IF \E i \in starts : endsAfter(i) # {}
            THEN call.ret = Ok(PyStr(Slice(text, Min(starts) + Len(start),
                                           Max(endsAfter(Min(starts))))))
            ELSE call.ret = Raise("ValueError", "No message found!")

\* C7: decodeCandidate(start + payload + end) == payload for every payload;
\* a string that does not begin with the start marker fails with the start
\* boundary's MalformedFrame, and one that begins with it but does not end
\* with the end marker fails with the end boundary's.
C7_FramingLaw ==
    /\ (call.op = "unframe") =>
            /\ call.mid = PyStr(embedded.start_seq \o call.arg.str \o embedded.end_seq)
            /\ call.ret = Ok(call.arg)
    /\ (call.op = "decodeCandidate") =>
            LET s == call.arg.str
                start == embedded.start_seq
                end == embedded.end_seq
                begins == Len(start) <= Len(s) /\ SubSeq(s, 1, Len(start)) = start
                ends == Len(end) <= Len(s)
                            /\ SubSeq(s, Len(s) - Len(end) + 1, Len(s)) = end
            IN  /\ (~begins) => call.ret = Raise("ValueError",
                        "Message doesn't start with the expected start sequence")
                /\ (begins /\ ~ends) => call.ret = Raise("ValueError",
                        "Message doesn't end with the expected end sequence")

\* A payload that is itself the end marker has been framed and unframed
C7_Witness ==
    /\ call.op = "unframe"
    /\ Len(embedded.start_seq) > 0
    /\ Len(call.arg.str) > 0
    /\ call.arg.str = embedded.end_seq
    /\ call.ret.ok

----------------------------------------------------------------------------
(* Properties of ChainTranslatorBuilder, under SpecChain *)

\* The stages applied one after the other; the first failure ends it
RECURSIVE EncodeInOrder(_, _, _)
EncodeInOrder(ts, i, out) ==
    IF i > Len(ts) \/ ~out.ok THEN out
    ELSE EncodeInOrder(ts, i + 1, Encode(ts[i], out.val))

RECURSIVE DecodeInReverse(_, _, _)
DecodeInReverse(ts, i, out) ==
    IF i < 1 \/ ~out.ok THEN out
    ELSE DecodeInReverse(ts, i - 1, Decode(ts[i], out.val))

\* C5: build() fails with BuildError (RuntimeError) on no translator, returns
\* the one translator when there is one, and for two or more returns a
\* composite whose encode applies the stages in insertion order and whose
\* decode applies them in reverse order.
C5_BuilderArity ==
    /\ (call.op = "build") =>
            /\ (Len(call.arg) = 0) =>
                    (~call.ret.ok /\ call.ret.exc = "RuntimeError")
            /\ (Len(call.arg) = 1) => (call.ret = Ok(call.arg[1]))
            /\ (Len(call.arg) >= 2) =>
                    (call.ret.ok /\ call.ret.val.kind = "Chained")
    /\ (call.op = "encode") =>
            (call.ret = EncodeInOrder(snapshot, 1, Ok(call.arg)))
    /\ (call.op = "decode") =>
            (call.ret = DecodeInReverse(snapshot, Len(snapshot), Ok(call.arg)))
    /\ (call.op = "roundtrip") =>
            (call.ret = DecodeInReverse(snapshot, Len(snapshot), Ok(call.mid)))

\* A message went through three stages, the first two different, and back
C5_Witness ==
    /\ call.op = "roundtrip"
    /\ Len(snapshot) = 3
    /\ snapshot[1] # snapshot[2]
    /\ Len(call.arg.str) > 0
    /\ call.ret = Ok(call.arg)

\* The stages of a translator, in the order its encode applies them
RECURSIVE Stages(_)
Stages(t) ==
    IF t.kind = "Chained" THEN Stages(t.t1) \o Stages(t.t2) ELSE <<t>>

\* C10: the builder's list is always what was added, in call order; build
\* leaves it unchanged; a composite keeps the stages of the list it was built
\* from, whatever is added afterwards.
C10_BuilderFrame ==
    /\ translators = added
    /\ (composite # None /\ composite.ok) => (Stages(composite.val) = snapshot)
    /\ (composite # None /\ ~composite.ok) => (snapshot = <<>>)
    /\ (call.op = "encode") =>
            (call.ret = EncodeInOrder(snapshot, 1, Ok(call.arg)))
    /\ (call.op = "build") => (call.arg = added /\ call.ret = ChainBuild(added))

\* A composite of two stages is used after a third translator was added
C10_Witness ==
    /\ call.op = "encode"
    /\ Len(snapshot) = 2
    /\ Len(translators) = 3
    /\ translators[3] # translators[2]
    /\ call.ret.ok

----------------------------------------------------------------------------
(* Properties of the translator CharsetTranslatorBuilder builds, under     *)
(* SpecCharset.  Every configuration of the model has a target alphabet of *)
(* unique symbols, a separator that is no target symbol and markers that   *)
(* occur in no payload.                                                    *)

\* C1: decode(encode(message)) == message for every message, decode
\* returning the message as a string.
C1_RoundTrip ==
    (call.op = "roundtrip") => (call.ret = Ok(call.arg))

\* The Base10ToBaseNTranslator and the StringReplacementTranslator of a
\* built pipeline
NumeralStage(p) == p.t1.t1.t1.t1.t1.t2.translator
ReplacementStage(p) == p.t1.t1.t1.t2.translator.translator

\* C4: the canonical digits of a pipeline built for N target symbols are
\* unique, and the substitution pairs digit i with target symbol i both ways.
C4_Bijection ==
    (call.op = "build" /\ pipeline.ok) =>
        LET target == charsetBuilder.charset.str
            digits == NumeralStage(pipeline.val).digits
            repl == ReplacementStage(pipeline.val)
        IN  /\ \A i, j \in 1..Len(target) : (i # j) => (digits[i] # digits[j])
            /\ \A i \in 1..Len(target) :
                LET x == PyStr(<<digits[i]>>)
                    y == PyStr(<<target[i]>>)
                IN  /\ ReplacementEncode(repl, x) = Ok(y)
                    /\ ReplacementDecode(repl, y) = Ok(x)

\* C8: a call in which a stage fails with KeyNotFound (KeyError) or OutOfRange
\* (ValueError) raises during the call and returns no value: what encode or
\* decode returns holds no such failure still to come, and no next() on it
\* raises one.
C8_FailureAbortsTheCall ==
    /\ (call.op \in {"encode", "decode", "roundtrip"} /\ call.ret.ok) =>
            ~(IsGen(call.ret.val) /\ Raises(call.ret.val.gen)
                /\ FirstRaise(call.ret.val.gen).exc \in {"KeyError", "ValueError"})
    /\ (call.op = "next" /\ ~call.ret.ok) =>
            (call.ret.exc \notin {"KeyError", "ValueError"})

=============================================================================
